---- MODULE Spec2Model ----
(***************************************************************************)
(* Model of the publication tools get_papers.py (full refresh) and         *)
(* get_papers_merge.py (incremental merge, hide).                          *)
(*                                                                         *)
(* Text is a sequence of one-character strings, so that title              *)
(* normalisation, lower-casing, splitting and substring tests are computed *)
(* as the Python code computes them.  An absent or empty text field is the *)
(* empty sequence; an absent year (None) is 0, which Python's `not year`   *)
(* treats like None.                                                       *)
(***************************************************************************)
EXTENDS Integers, Sequences, FiniteSets, TLC

VARIABLES
    papers_data,   \* the dataset held by the merge tool (list of year groups)
    prev_data,     \* the dataset before the last library call
    last_op,       \* the library call made: "none", "merge", "merge_again", "hide" or "format"
    last_new,      \* new_papers argument of the last merge_new_papers call
    last_maps,     \* the mappings of the last merge_new_papers call
    last_count,    \* the addition count returned by the last merge
    last_title,    \* title argument of the last mark_paper_as_hidden call
    last_author,   \* first_author argument of that call (<<>> for None)
    last_found,    \* its return value
    papers,            \* remove_duplicates: the list being deduplicated
    paper_ix,          \* remove_duplicates: number of papers the loop has taken
    unique_papers,     \* remove_duplicates: the result list so far
    processed_titles,  \* remove_duplicates: the keys processed so far
    pc,            \* a run of a command: "start", "fetch", "fetched" or "done"
    command,       \* the command run: "refresh", "merge" or "hide" ("none" before)
    file_data,     \* the dataset in the file _data/papers_copy.yml
    author_ix,     \* get_all_author_papers: index of the author identifier in turn
    offset,        \* get_author_papers: offset of the next request
    author_papers, \* get_author_papers: all_papers, of the author in turn
    all_papers,    \* get_all_author_papers: all_papers
    requests,      \* the page requests issued, with what the API answered
    saves,         \* the save_to_yaml calls made: dataset and outcome
    new_count,     \* main of get_papers_merge.py: new_count (-1 before the merge)
    found,         \* main of get_papers_merge.py: result of mark_paper_as_hidden
    exit_status    \* exit status of the process (-1 while it runs)

libVars == <<papers_data, prev_data, last_op, last_new, last_maps, last_count,
             last_title, last_author, last_found>>

dedupVars == <<papers, paper_ix, unique_papers, processed_titles>>

runVars == <<pc, command, file_data, author_ix, offset, author_papers, all_papers,
             requests, saves, new_count, found, exit_status>>

vars == <<libVars, dedupVars, runVars>>

-----------------------------------------------------------------------------
(* Bounds of the model *)

MaxGroups == 2     \* year groups in the dataset file read at start
MaxBatch == 2      \* papers in one fetched batch
MaxDedup == 3      \* papers in a list given to remove_duplicates
MaxPages == 2      \* full pages the API holds for one author identifier

-----------------------------------------------------------------------------
(* Constants of the programs *)

Limit == 100            \* page size of a request
ManyAuthors == 50       \* author count from which a paper is filtered out

-----------------------------------------------------------------------------
(* Text primitives (Python str methods) *)

UpperToLower ==
    [c \in {"A","B","C","D","E","F","G","H","I","J","K","L","M",
            "N","O","P","Q","R","S","T","U","V","W","X","Y","Z"} |->
        CASE c = "A" -> "a" [] c = "B" -> "b" [] c = "C" -> "c" [] c = "D" -> "d"
          [] c = "E" -> "e" [] c = "F" -> "f" [] c = "G" -> "g" [] c = "H" -> "h"
          [] c = "I" -> "i" [] c = "J" -> "j" [] c = "K" -> "k" [] c = "L" -> "l"
          [] c = "M" -> "m" [] c = "N" -> "n" [] c = "O" -> "o" [] c = "P" -> "p"
          [] c = "Q" -> "q" [] c = "R" -> "r" [] c = "S" -> "s" [] c = "T" -> "t"
          [] c = "U" -> "u" [] c = "V" -> "v" [] c = "W" -> "w" [] c = "X" -> "x"
          [] c = "Y" -> "y" [] c = "Z" -> "z"]

\* str.lower()
Lower(s) ==
    [i \in 1..Len(s) |-> IF s[i] \in DOMAIN UpperToLower THEN UpperToLower[s[i]] ELSE s[i]]

Whitespace == {" ", "\t", "\n"}

RECURSIVE LStrip(_)
LStrip(s) ==
    IF s # <<>> /\ s[1] \in Whitespace THEN LStrip(Tail(s)) ELSE s

RECURSIVE RStrip(_)
RStrip(s) ==
    IF s # <<>> /\ s[Len(s)] \in Whitespace THEN RStrip(SubSeq(s, 1, Len(s) - 1)) ELSE s

\* str.strip()
Strip(s) == RStrip(LStrip(s))

\* `sub in s` on str
Contains(sub, s) ==
    \E i \in 0..(Len(s) - Len(sub)) : SubSeq(s, i + 1, i + Len(sub)) = sub

\* s.endswith(suffix)
EndsWith(s, suffix) ==
    /\ Len(suffix) <= Len(s)
    /\ SubSeq(s, Len(s) - Len(suffix) + 1, Len(s)) = suffix

\* s.split(c)[0]: the text before the first occurrence of c (all of s if none)
BeforeFirst(s, c) ==
    IF \E i \in 1..Len(s) : s[i] = c
    THEN LET k == CHOOSE i \in 1..Len(s) : s[i] = c /\ \A j \in 1..(i - 1) : s[j] # c
         IN  SubSeq(s, 1, k - 1)
    ELSE s

RECURSIVE JoinWith(_, _)
\* sep.join(parts)
JoinWith(sep, parts) ==
    IF parts = <<>> THEN <<>>
    ELSE IF Len(parts) = 1 THEN parts[1]
    ELSE parts[1] \o sep \o JoinWith(sep, Tail(parts))

-----------------------------------------------------------------------------
(* Title, first author, signature *)

\* normalize_title without the cut at the first colon
NormalizeTitleWhole(title) == Strip(title)

normalize_title(title) ==
    IF Contains(<<":">>, title) THEN Strip(BeforeFirst(title, ":")) ELSE Strip(title)

\* The authors argument carries its Python type: t = "list" (v a sequence of
\* {name} records, given here by their names) or t = "str" (v a text).
ListAuthors(names) == [t |-> "list", v |-> names]
StrAuthors(text) == [t |-> "str", v |-> text]

get_first_author(authors) ==
    IF authors.v = <<>> THEN <<>>
    ELSE IF authors.t = "list" THEN authors.v[1]
    ELSE Strip(BeforeFirst(authors.v, ","))

\* create_paper_signature on a paper whose authors field is a text
create_paper_signature(paper) ==
    Lower(normalize_title(paper.title)) \o <<"_">>
        \o Lower(get_first_author(StrAuthors(paper.authors)))

\* all papers of a dataset as [year, paper] entries in file order
RECURSIVE AllEntries(_)
AllEntries(data) ==
    IF data = <<>> THEN <<>>
    ELSE [i \in 1..Len(data[1].papers) |-> [year |-> data[1].year, paper |-> data[1].papers[i]]]
            \o AllEntries(Tail(data))

get_existing_paper_signatures(existing_papers) ==
    LET es == AllEntries(existing_papers)
    IN  {create_paper_signature(es[i].paper) : i \in 1..Len(es)}

-----------------------------------------------------------------------------
(* Year resolution and normalisation of a raw paper *)

Digits == {"0", "1", "2", "3", "4", "5", "6", "7", "8", "9"}

DigitVal(c) ==
    CASE c = "0" -> 0 [] c = "1" -> 1 [] c = "2" -> 2 [] c = "3" -> 3 [] c = "4" -> 4
      [] c = "5" -> 5 [] c = "6" -> 6 [] c = "7" -> 7 [] c = "8" -> 8 [] c = "9" -> 9

\* str.replace("Z", "+00:00")
RECURSIVE ReplaceZ(_)
ReplaceZ(s) ==
    IF s = <<>> THEN <<>>
    ELSE (IF s[1] = "Z" THEN <<"+", "0", "0", ":", "0", "0">> ELSE <<s[1]>>) \o ReplaceZ(Tail(s))

DaysInMonth(y, m) ==
    IF m \in {4, 6, 9, 11} THEN 30
    ELSE IF m = 2 THEN (IF (y % 4 = 0 /\ y % 100 # 0) \/ y % 400 = 0 THEN 29 ELSE 28)
    ELSE 31

\* datetime.fromisoformat(text).year for a calendar date YYYY-MM-DD, the form
\* the API gives publicationDate in; 0 when the text does not parse (the
\* code's bare except leaves year = None).
IsoYear(text) ==
    IF /\ Len(text) = 10
       /\ text[5] = "-" /\ text[8] = "-"
       /\ \A i \in {1, 2, 3, 4, 6, 7, 9, 10} : text[i] \in Digits
    THEN LET y == 1000 * DigitVal(text[1]) + 100 * DigitVal(text[2])
                    + 10 * DigitVal(text[3]) + DigitVal(text[4])
             m == 10 * DigitVal(text[6]) + DigitVal(text[7])
             d == 10 * DigitVal(text[9]) + DigitVal(text[10])
         IN  IF y >= 1 /\ m \in 1..12 /\ d >= 1 /\ d <= DaysInMonth(y, m) THEN y ELSE 0
    ELSE 0

\* lines 175-186 (207-221 of get_papers.py): the year of a raw paper, 0 if none
ResolveYear(paper) ==
    LET fromDate == IF paper.publicationDate # <<>>
                    THEN IsoYear(ReplaceZ(paper.publicationDate)) ELSE 0
    IN  IF fromDate # 0 THEN fromDate ELSE paper.year

\* dict.get(key, key) on a mapping table
MapGet(mapping, key) == IF key \in DOMAIN mapping THEN mapping[key] ELSE key

\* lines 196-211: the mapped, non-empty author names
RECURSIVE MappedAuthors(_, _)
MappedAuthors(raw_authors, author_name_mapping) ==
    IF raw_authors = <<>> THEN <<>>
    ELSE LET author_name == MapGet(author_name_mapping, raw_authors[1])
         IN  (IF author_name # <<>> THEN <<author_name>> ELSE <<>>)
                \o MappedAuthors(Tail(raw_authors), author_name_mapping)

\* lines 188-194: the venue written, <<>> when the venue field is omitted
MappedVenue(paper, venue_mapping) ==
    LET venue == IF paper.venue # <<>> THEN paper.venue ELSE paper.publicationVenue
    IN  IF venue # <<>> /\ venue # <<"n", "u", "l", "l">>
        THEN MapGet(venue_mapping, venue) ELSE <<>>

\* lines 223-233: the pdf link written, <<>> when the pdf field is omitted
PdfUrl(paper) ==
    IF paper.openAccessPdf # <<>> THEN paper.openAccessPdf
    ELSE IF /\ paper.url # <<>>
            /\ \/ EndsWith(paper.url, <<".", "p", "d", "f">>)
               \/ Contains(<<"a","r","x","i","v",".","o","r","g","/","p","d","f">>, paper.url)
         THEN paper.url
         ELSE <<>>

\* the canonical paper of a raw paper, without the show key (get_papers.py)
FormattedPaper(paper, venue_mapping, author_name_mapping) ==
    [title   |-> paper.title,
     authors |-> JoinWith(<<",", " ">>, MappedAuthors(paper.authors, author_name_mapping)),
     venue   |-> MappedVenue(paper, venue_mapping),
     pdf     |-> PdfUrl(paper)]

NoPaper == [none |-> TRUE]

\* get_papers_merge.py: None, or {"paper": ..., "year": ...} with show: True
format_paper_for_yaml(paper, venue_mapping, author_name_mapping) ==
    LET year == ResolveYear(paper)
    IN  IF year = 0 THEN NoPaper
        ELSE [paper |-> FormattedPaper(paper, venue_mapping, author_name_mapping)
                            @@ [show |-> "true"],
              year  |-> year]

-----------------------------------------------------------------------------
(* Incremental merge *)

\* sorted(keys) without reverse=True
RECURSIVE SortedAscending(_)
SortedAscending(S) ==
    IF S = {} THEN <<>>
    ELSE LET m == CHOOSE x \in S : \A y \in S : x <= y
         IN  <<m>> \o SortedAscending(S \ {m})

\* sorted(keys, reverse=True)
RECURSIVE SortedDescending(_)
SortedDescending(S) ==
    IF S = {} THEN <<>>
    ELSE LET m == CHOOSE x \in S : \A y \in S : y <= x
         IN  <<m>> \o SortedDescending(S \ {m})

\* lines 243-250
HiddenSignatures(existing_papers) ==
    LET es == AllEntries(existing_papers)
    IN  {create_paper_signature(es[i].paper) : i \in {j \in 1..Len(es) : es[j].paper.show = "false"}}

\* lines 253-256: a later year group replaces an earlier one of the same year
ExistingByYear(existing_papers) ==
    LET idx == DOMAIN existing_papers
    IN  [y \in {existing_papers[i].year : i \in idx} |->
            LET last == CHOOSE i \in idx :
                            /\ existing_papers[i].year = y
                            /\ \A j \in idx : existing_papers[j].year = y => j <= i
            IN  existing_papers[last].papers]

\* the loop without line 281: an added signature is not remembered
RECURSIVE MergeLoopForgetful(_, _, _, _, _, _, _)
MergeLoopForgetful(existing_by_year, existing_signatures, hidden_signatures, new_papers_added, new_papers, i, maps) ==
    IF i > Len(new_papers)
    THEN [by_year |-> existing_by_year, added |-> new_papers_added]
    ELSE LET formatted_data == format_paper_for_yaml(new_papers[i], maps.venue, maps.author)
         IN  IF formatted_data = NoPaper
             THEN MergeLoopForgetful(existing_by_year, existing_signatures, hidden_signatures,
                                     new_papers_added, new_papers, i + 1, maps)
             ELSE LET formatted_paper == formatted_data.paper
                      year == formatted_data.year
                      signature == create_paper_signature(formatted_paper)
                  IN  IF signature \in existing_signatures \/ signature \in hidden_signatures
                      THEN MergeLoopForgetful(existing_by_year, existing_signatures,
                                              hidden_signatures, new_papers_added,
                                              new_papers, i + 1, maps)
                      ELSE LET old == IF year \in DOMAIN existing_by_year
                                      THEN existing_by_year[year] ELSE <<>>
                               by_year == [y \in DOMAIN existing_by_year \cup {year} |->
                                             IF y = year THEN Append(old, formatted_paper)
                                             ELSE existing_by_year[y]]
                           IN  MergeLoopForgetful(by_year, existing_signatures,
                                                  hidden_signatures, new_papers_added + 1,
                                                  new_papers, i + 1, maps)

\* lines 261-284: the loop over new_papers, from index i on
RECURSIVE MergeLoop(_, _, _, _, _, _, _)
MergeLoop(existing_by_year, existing_signatures, hidden_signatures, new_papers_added, new_papers, i, maps) ==
    IF i > Len(new_papers)
    THEN [by_year |-> existing_by_year, added |-> new_papers_added]
    ELSE LET formatted_data == format_paper_for_yaml(new_papers[i], maps.venue, maps.author)
         IN  IF formatted_data = NoPaper
             THEN MergeLoop(existing_by_year, existing_signatures, hidden_signatures,
                            new_papers_added, new_papers, i + 1, maps)
             ELSE LET formatted_paper == formatted_data.paper
                      year == formatted_data.year
                      signature == create_paper_signature(formatted_paper)
                  IN  IF signature \in existing_signatures \/ signature \in hidden_signatures
                      THEN MergeLoop(existing_by_year, existing_signatures, hidden_signatures,
                                     new_papers_added, new_papers, i + 1, maps)
                      ELSE LET old == IF year \in DOMAIN existing_by_year
                                      THEN existing_by_year[year] ELSE <<>>
                               by_year == [y \in DOMAIN existing_by_year \cup {year} |->
                                             IF y = year THEN Append(old, formatted_paper)
                                             ELSE existing_by_year[y]]
                           IN  MergeLoop(by_year, existing_signatures \cup {signature},
                                         hidden_signatures, new_papers_added + 1,
                                         new_papers, i + 1, maps)

\* the year groups by ascending year
MergedPapersAscending(existing_by_year) ==
    LET years == SortedAscending(DOMAIN existing_by_year)
    IN  [k \in 1..Len(years) |-> [year |-> years[k], papers |-> existing_by_year[years[k]]]]

\* lines 287-292: the year groups by descending year
MergedPapers(existing_by_year) ==
    LET years == SortedDescending(DOMAIN existing_by_year)
    IN  [k \in 1..Len(years) |-> [year |-> years[k], papers |-> existing_by_year[years[k]]]]

merge_new_papers(existing_papers, new_papers, maps) ==
    LET r == MergeLoop(ExistingByYear(existing_papers),
                       get_existing_paper_signatures(existing_papers),
                       HiddenSignatures(existing_papers), 0, new_papers, 1, maps)
    IN  [papers |-> MergedPapers(r.by_year), count |-> r.added]

-----------------------------------------------------------------------------
(* Hide operation *)

\* hides every paper of the target signature instead of returning at the first
MarkEveryMatchHidden(data, title, first_author) ==
    LET target_signature == create_paper_signature([title |-> title, authors |-> first_author])
        marked == [g \in DOMAIN data |->
                     [data[g] EXCEPT !.papers =
                        [p \in DOMAIN data[g].papers |->
                           IF create_paper_signature(data[g].papers[p]) = target_signature
                           THEN [data[g].papers[p] EXCEPT !.show = "false"]
                           ELSE data[g].papers[p]]]]
    IN  [papers |-> marked,
         found |-> target_signature \in get_existing_paper_signatures(data)]

\* first_author = <<>> stands for None and for "": the code takes `first_author or ""`
mark_paper_as_hidden(data, title, first_author) ==
    LET target_signature == create_paper_signature([title |-> title, authors |-> first_author])
        es == AllEntries(data)
        hits == {k \in 1..Len(es) : create_paper_signature(es[k].paper) = target_signature}
    IN  IF hits = {} THEN [papers |-> data, found |-> FALSE]
        ELSE LET first == CHOOSE k \in hits : \A j \in hits : k <= j
                 \* the year group and the place in it of entry number `first`
                 g == CHOOSE gi \in 1..Len(data) :
                        /\ Len(AllEntries(SubSeq(data, 1, gi - 1))) < first
                        /\ first <= Len(AllEntries(SubSeq(data, 1, gi)))
                 p == first - Len(AllEntries(SubSeq(data, 1, g - 1)))
             IN  [papers |-> [data EXCEPT ![g].papers[p].show = "false"], found |-> TRUE]

-----------------------------------------------------------------------------
(* Full refresh: grouping by year (get_papers.py) *)

\* lines 206-275: the formatted papers of year y, in input order; a paper
\* without a year is skipped (and counted)
RECURSIVE PapersOfYear(_, _, _)
PapersOfYear(list, y, maps) ==
    IF list = <<>> THEN <<>>
    ELSE (IF ResolveYear(list[1]) = y
          THEN <<FormattedPaper(list[1], maps.venue, maps.author) @@ [show |-> "absent"]>>
          ELSE <<>>) \o PapersOfYear(Tail(list), y, maps)

format_papers_for_yaml(list, maps) ==
    LET keys == {ResolveYear(list[i]) : i \in DOMAIN list} \ {0}
        years == SortedDescending(keys)
    IN  [k \in 1..Len(years) |->
            [year |-> years[k], papers |-> PapersOfYear(list, years[k], maps)]]

-----------------------------------------------------------------------------
(* Full refresh: duplicates (get_papers.py), on raw papers *)

\* re.sub(r'^[^:]+:\s*', '', title): a leading "text:" and the white space
\* after it are removed; a title without colon, or starting with one, is kept
StripColonPrefix(title) ==
    IF Contains(<<":">>, title) /\ title[1] # ":"
    THEN LStrip(SubSeq(title, Len(BeforeFirst(title, ":")) + 2, Len(title)))
    ELSE title

\* is_duplicate with rule 3 reading only "title1 in title2"
IsDuplicateOneWay(paper1, paper2) ==
    \/ Lower(normalize_title(paper1.title)) = Lower(normalize_title(paper2.title))
    \/ /\ get_first_author(ListAuthors(paper1.authors)) # <<>>
       /\ Lower(get_first_author(ListAuthors(paper1.authors)))
             = Lower(get_first_author(ListAuthors(paper2.authors)))
       /\ Contains(Lower(normalize_title(paper1.title)), Lower(normalize_title(paper2.title)))

is_duplicate(paper1, paper2) ==
    LET title1 == normalize_title(paper1.title)
        title2 == normalize_title(paper2.title)
        clean_title1 == Strip(StripColonPrefix(title1))
        clean_title2 == Strip(StripColonPrefix(title2))
        author1 == get_first_author(ListAuthors(paper1.authors))
        author2 == get_first_author(ListAuthors(paper2.authors))
    IN  \/ Lower(title1) = Lower(title2)
        \/ /\ title1 # <<>> /\ title2 # <<>>
           /\ Lower(clean_title1) = Lower(clean_title2)
        \/ /\ author1 # <<>> /\ author2 # <<>>
           /\ Lower(author1) = Lower(author2)
           /\ \/ Contains(Lower(title1), Lower(title2))
              \/ Contains(Lower(title2), Lower(title1))

\* lines 74-75: rule 1, the normalized titles are equal but for case
TitlesEqual(paper1, paper2) ==
    Lower(normalize_title(paper1.title)) = Lower(normalize_title(paper2.title))

\* lines 78-83: rule 2, the normalized titles are equal but for case once a
\* leading "text:" is removed from both
CleanTitlesEqual(paper1, paper2) ==
    LET title1 == normalize_title(paper1.title)
        title2 == normalize_title(paper2.title)
    IN  /\ title1 # <<>> /\ title2 # <<>>
        /\ Lower(Strip(StripColonPrefix(title1))) = Lower(Strip(StripColonPrefix(title2)))

\* lines 86-92: rule 3, same first author and one normalized title within the
\* other
SameAuthorContained(paper1, paper2) ==
    LET title1 == normalize_title(paper1.title)
        title2 == normalize_title(paper2.title)
        author1 == get_first_author(ListAuthors(paper1.authors))
        author2 == get_first_author(ListAuthors(paper2.authors))
    IN  /\ author1 # <<>> /\ author2 # <<>>
        /\ Lower(author1) = Lower(author2)
        /\ \/ Contains(Lower(title1), Lower(title2))
           \/ Contains(Lower(title2), Lower(title1))

\* the return statement of is_duplicate that is taken: line 75 (1), line 83
\* (2), line 92 (3), or the final return False (0)
DecidingRule(paper1, paper2) ==
    IF TitlesEqual(paper1, paper2) THEN 1
    ELSE IF CleanTitlesEqual(paper1, paper2) THEN 2
    ELSE IF SameAuthorContained(paper1, paper2) THEN 3
    ELSE 0

\* the venue test of select_best_paper without the word "preprint"
IsArxivVenue(paper) == Contains(<<"a", "r", "x", "i", "v">>, Lower(paper.venue))

IsPreprintVenue(paper) ==
    \/ Contains(<<"a", "r", "x", "i", "v">>, Lower(paper.venue))
    \/ Contains(<<"p", "r", "e", "p", "r", "i", "n", "t">>, Lower(paper.venue))

\* duplicates is never empty where remove_duplicates calls it
select_best_paper(duplicates) ==
    LET non_arxiv_papers == SelectSeq(duplicates, LAMBDA paper : ~IsPreprintVenue(paper))
    IN  IF non_arxiv_papers # <<>> THEN non_arxiv_papers[1] ELSE duplicates[1]

\* lines 121-123: the key of a raw paper
DedupKey(paper) ==
    Lower(normalize_title(paper.title)) \o <<"_">>
        \o Lower(get_first_author(ListAuthors(paper.authors)))

\* list.index(paper): the first place of an equal paper
IndexOf(list, paper) ==
    CHOOSE k \in DOMAIN list : list[k] = paper /\ \A j \in 1..(k - 1) : list[j] # paper

\* lines 127-130: the paper and the later papers that duplicate it
DuplicatesOf(list, paper) ==
    <<paper>> \o SelectSeq(SubSeq(list, IndexOf(list, paper) + 1, Len(list)),
                           LAMBDA other_paper : is_duplicate(paper, other_paper))

\* lines 120-135: one turn of the loop, for list[k]
DedupTurn(list, k, unique, processed) ==
    IF DedupKey(list[k]) \notin processed
    THEN [unique |-> Append(unique, select_best_paper(DuplicatesOf(list, list[k]))),
          processed |-> processed \cup {DedupKey(list[k])}]
    ELSE [unique |-> unique, processed |-> processed]

RECURSIVE DedupFrom(_, _, _, _)
DedupFrom(list, k, unique, processed) ==
    IF k > Len(list) THEN unique
    ELSE LET t == DedupTurn(list, k, unique, processed)
         IN  DedupFrom(list, k + 1, t.unique, t.processed)

remove_duplicates(list) == DedupFrom(list, 1, <<>>, {})

-----------------------------------------------------------------------------
(* Fetching: get_author_papers and get_all_author_papers *)

\* get_author_ids
AuthorIds == <<"2034613", "2302559920">>

\* what one request gets: a request error, or the "data" list of the answer
ErrorResponse == [kind |-> "error", data |-> <<>>]
PageResponse(data) == [kind |-> "ok", data |-> data]

\* lines 138-144: the papers of a page with fewer than 50 authors
FilteredPapers(data) == SelectSeq(data, LAMBDA paper : Len(paper.authors) < ManyAuthors)

\* the loop body without line 146: the papers of a short page are not kept
AfterResponseDropsShortPage(response, offs, kept) ==
    IF response.kind = "error" \/ response.data = <<>>
    THEN [author_papers |-> kept, offset |-> offs, finished |-> TRUE]
    ELSE IF Len(response.data) < Limit
    THEN [author_papers |-> kept, offset |-> offs, finished |-> TRUE]
    ELSE [author_papers |-> kept \o FilteredPapers(response.data),
          offset |-> offs + Limit, finished |-> FALSE]

\* lines 121-156: one turn of the loop of get_author_papers, given what the
\* request at offset offs got: the papers kept so far, the next offset, and
\* whether the loop is left
AfterResponse(response, offs, kept) ==
    IF response.kind = "error" \/ response.data = <<>>
    THEN [author_papers |-> kept, offset |-> offs, finished |-> TRUE]
    ELSE IF Len(response.data) < Limit
    THEN [author_papers |-> kept \o FilteredPapers(response.data),
          offset |-> offs, finished |-> TRUE]
    ELSE [author_papers |-> kept \o FilteredPapers(response.data),
          offset |-> offs + Limit, finished |-> FALSE]

-----------------------------------------------------------------------------
(* The commands: main of get_papers_merge.py and of get_papers.py *)

\* save_to_yaml: the file after the call.  A failed save leaves the file as it
\* was (open failed) or empty (the dump failed after open truncated it); the
\* loader reads an empty file as the empty dataset.
FileAfterSave(file, data, outcome) ==
    CASE outcome = "ok" -> data
      [] outcome = "open_failed" -> file
      [] outcome = "dump_failed" -> <<>>

\* lines 349-353: what the hide run does with the result r of
\* mark_paper_as_hidden
HideOutcome(file, outcome, r) ==
    IF r.found
    THEN [found |-> TRUE, saves |-> <<[data |-> r.papers, outcome |-> outcome]>>,
          file |-> FileAfterSave(file, r.papers, outcome), exit_status |-> 0]
    ELSE [found |-> FALSE, saves |-> <<>>, file |-> file, exit_status |-> 0]

\* lines 343-354 of get_papers_merge.py: the run with --hide-paper
MainHide(file, title, first_author, outcome) ==
    HideOutcome(file, outcome, mark_paper_as_hidden(file, title, first_author))

\* load_venue_mapping and load_author_name_mapping return the None of
\* yaml.safe_load for a file that is there but empty: maps.none names the
\* mappings that are None.
\* lines 194 and 204, 209: formatting a paper uses a mapping that is None, which
\* raises an exception nothing catches
FormatRaises(paper, maps) ==
    /\ ResolveYear(paper) # 0
    /\ \/ /\ "venue" \in maps.none
          /\ MappedVenue(paper, <<>>) # <<>>
       \/ /\ "author" \in maps.none
          /\ paper.authors # <<>>

\* a run that ends by an uncaught exception: traceback, exit status 1
Traceback(file) == [new_count |-> -1, saves |-> <<>>, file |-> file, exit_status |-> 1]

\* lines 381-396: what the merge run does with the result r of merge_new_papers
MergeOutcome(file, outcome, r) ==
    IF r.count = 0
    THEN [new_count |-> 0, saves |-> <<>>, file |-> file, exit_status |-> 0]
    ELSE [new_count |-> r.count,
          saves |-> <<[data |-> r.papers, outcome |-> outcome]>>,
          file |-> FileAfterSave(file, r.papers, outcome), exit_status |-> 0]

\* lines 371-396 of get_papers_merge.py: the merge run after the fetch
MainMerge(file, api_papers, maps, outcome) ==
    IF api_papers = <<>>
    THEN [new_count |-> -1, saves |-> <<>>, file |-> file, exit_status |-> 1]
    ELSE IF \E i \in DOMAIN api_papers : FormatRaises(api_papers[i], maps)
    THEN Traceback(file)
    ELSE MergeOutcome(file, outcome, merge_new_papers(file, api_papers, maps))

\* lines 328-334 of get_papers.py: the refresh formats and saves the papers
\* left by remove_duplicates
RefreshOutcome(file, maps, outcome, unique) ==
    IF \E i \in DOMAIN unique : FormatRaises(unique[i], maps)
    THEN Traceback(file)
    ELSE [new_count |-> -1,
          saves |-> <<[data |-> format_papers_for_yaml(unique, maps), outcome |-> outcome]>>,
          file |-> FileAfterSave(file, format_papers_for_yaml(unique, maps), outcome),
          exit_status |-> 0]

\* lines 317-342 of get_papers.py: the full refresh after the fetch
MainRefresh(file, api_papers, maps, outcome) ==
    IF api_papers = <<>>
    THEN [new_count |-> -1, saves |-> <<>>, file |-> file, exit_status |-> 1]
    ELSE RefreshOutcome(file, maps, outcome, remove_duplicates(api_papers))

-----------------------------------------------------------------------------
(* Inputs: texts, stored papers, raw papers, mapping tables *)

txtArxiv == <<"a", "r", "X", "i", "v">>
txtACL == <<"A", "C", "L">>

\* stored (canonical) papers; show is "true", "false" or "absent"
pE  == [title |-> <<"E", ":", " ", "b">>, authors |-> <<"S", ",", " ", "t">>,
        venue |-> txtACL, pdf |-> <<>>, show |-> "true"]
pEh == [title |-> <<"e", " ">>, authors |-> <<"s">>,
        venue |-> <<>>, pdf |-> <<>>, show |-> "false"]
pX  == [title |-> <<"E", "x">>, authors |-> <<"S">>,
        venue |-> <<>>, pdf |-> <<"u", ".", "p", "d", "f">>, show |-> "absent"]

StoredLists == {<<pEh>>, <<pX>>, <<pX, pE>>}
StoredYears == {2020, 2021}
StoredGroups == {[year |-> y, papers |-> ps] : y \in StoredYears, ps \in StoredLists}

\* all sequences over S of length at most n
SeqsUpTo(S, n) == UNION {[1..k -> S] : k \in 0..n}

\* the datasets the loader may return: any list of year groups, in any order
LoadableDatasets == SeqsUpTo(StoredGroups, MaxGroups)

\* raw papers as the API returns them (authors given by their names)
rE == [title |-> <<"E">>, authors |-> << <<"S">>, <<"t">> >>, year |-> 2020,
       publicationDate |-> <<"2","0","2","1","-","0","5","-","0","1">>,
       venue |-> <<>>, publicationVenue |-> txtACL, url |-> <<>>, openAccessPdf |-> <<>>]
rB == [title |-> <<"b", ":", "x">>, authors |-> << <<"t">>, <<"S">> >>, year |-> 2022,
       publicationDate |-> <<>>,
       venue |-> txtArxiv, publicationVenue |-> <<>>,
       url |-> <<"u", ".", "p", "d", "f">>, openAccessPdf |-> <<>>]
rN == [title |-> <<"n">>, authors |-> <<>>, year |-> 0,
       publicationDate |-> <<"2","0","2","1","-","1","3","-","0","1">>,
       venue |-> <<"n", "u", "l", "l">>, publicationVenue |-> <<>>,
       url |-> <<"u">>, openAccessPdf |-> <<>>]

\* "E" as a preprint, "Ex" by the same first author at a conference, and
\* "e: z" by another first author without a year
rA  == [title |-> <<"E">>, authors |-> << <<"S">> >>, year |-> 2021,
        publicationDate |-> <<>>,
        venue |-> txtArxiv, publicationVenue |-> <<>>, url |-> <<>>, openAccessPdf |-> <<>>]
rAx == [title |-> <<"E", "x">>, authors |-> << <<"s">>, <<"t">> >>, year |-> 2021,
        publicationDate |-> <<>>,
        venue |-> txtACL, publicationVenue |-> <<>>, url |-> <<>>, openAccessPdf |-> <<>>]
rAc == [title |-> <<"e", ":", " ", "z">>, authors |-> << <<"t">> >>, year |-> 0,
        publicationDate |-> <<>>,
        venue |-> <<>>, publicationVenue |-> <<>>, url |-> <<>>, openAccessPdf |-> <<>>]

\* "E: z" by the first author of "E", as a preprint and without a year
rAs == [title |-> <<"E", ":", " ", "z">>, authors |-> << <<"S">> >>, year |-> 0,
        publicationDate |-> <<>>,
        venue |-> <<"P", "r", "e", "p", "r", "i", "n", "t">>, publicationVenue |-> <<>>,
        url |-> <<>>, openAccessPdf |-> <<>>]

\* a paper of a large collaboration: 50 authors
rBig == [title |-> <<"b">>, authors |-> [i \in 1..ManyAuthors |-> <<"S">>], year |-> 2022,
         publicationDate |-> <<>>,
         venue |-> <<>>, publicationVenue |-> <<>>, url |-> <<>>, openAccessPdf |-> <<>>]

\* what the API may answer to a request: an error, an empty page, a short
\* page, or a full page of Limit records (all but the first of them large
\* collaborations)
FullPage == [i \in 1..Limit |-> IF i = 1 THEN rB ELSE rBig]
StopResponses == {ErrorResponse, PageResponse(<<>>), PageResponse(<<rE>>), PageResponse(<<rBig>>)}
Responses == StopResponses \cup {PageResponse(FullPage)}

\* the dataset file at the start of a run: absent or empty, or one year group
RunFiles == {<<>>, <<[year |-> 2021, papers |-> <<pE>>]>>}
SaveOutcomes == {"ok", "open_failed", "dump_failed"}

RawPapers == {rE, rB, rN}
DedupPapers == {rA, rAx, rAc, rB, rAs}
DedupLists == SeqsUpTo(DedupPapers, MaxDedup)
Batches == SeqsUpTo(RawPapers, MaxBatch)

\* the two mapping files: absent (empty tables) or present
NoMaps == [venue |-> <<>>, author |-> <<>>]
SomeMaps == [venue |-> (txtArxiv :> <<"A">>), author |-> (<<"t">> :> <<"S">>)]
Mappings == {NoMaps, SomeMaps}

\* what the two loaders may return at the start of a run: the file of the
\* venue mapping may be there and empty
EmptyVenueFile == [venue |-> <<>>, author |-> <<>>, none |-> {"venue"}]
LoadedMappings ==
    {[venue |-> m.venue, author |-> m.author, none |-> {}] : m \in Mappings}
        \cup {EmptyVenueFile}

HideTitles == {<<"E">>, <<"E", "x">>, <<"z">>}
HideAuthors == {<<>>, <<"S">>}

-----------------------------------------------------------------------------
(* The library calls of get_papers_merge.py on a loaded dataset *)

InitLib ==
    /\ papers_data \in LoadableDatasets
    /\ prev_data = papers_data
    /\ last_op = "none"
    /\ last_new = <<>>
    /\ last_maps = NoMaps
    /\ last_count = 0
    /\ last_title = <<>>
    /\ last_author = <<>>
    /\ last_found = FALSE

\* the caller takes the pair r that merge_new_papers returned
MergeInto(r) ==
    /\ papers_data' = r.papers
    /\ last_count' = r.count

Merge(new_papers, maps) ==
    /\ last_op = "none"
    /\ LET r == merge_new_papers(papers_data, new_papers, maps)
       IN  /\ papers_data' = r.papers
           /\ last_count' = r.count
    /\ prev_data' = papers_data
    /\ last_op' = "merge"
    /\ last_new' = new_papers
    /\ last_maps' = maps
    /\ UNCHANGED <<last_title, last_author, last_found, dedupVars, runVars>>

\* merge_new_papers called once more, on the dataset it returned and with the
\* same batch and mappings
MergeAgain ==
    /\ last_op = "merge"
    /\ MergeInto(merge_new_papers(papers_data, last_new, last_maps))
    /\ prev_data' = papers_data
    /\ last_op' = "merge_again"
    /\ UNCHANGED <<last_new, last_maps, last_title, last_author, last_found>>
    /\ UNCHANGED <<dedupVars, runVars>>

Hide(title, first_author) ==
    /\ last_op = "none"
    /\ LET r == mark_paper_as_hidden(papers_data, title, first_author)
       IN  /\ papers_data' = r.papers
           /\ last_found' = r.found
    /\ prev_data' = papers_data
    /\ last_op' = "hide"
    /\ last_title' = title
    /\ last_author' = first_author
    /\ UNCHANGED <<last_new, last_maps, last_count, dedupVars, runVars>>

FormatPapers(list, maps) ==
    /\ last_op = "none"
    /\ papers_data' = format_papers_for_yaml(list, maps)
    /\ prev_data' = papers_data
    /\ last_op' = "format"
    /\ last_new' = list
    /\ last_maps' = maps
    /\ UNCHANGED <<last_count, last_title, last_author, last_found, dedupVars, runVars>>

IdleLib ==
    /\ papers_data = <<>>
    /\ prev_data = <<>>
    /\ last_op = "none"
    /\ last_new = <<>>
    /\ last_maps = NoMaps
    /\ last_count = 0
    /\ last_title = <<>>
    /\ last_author = <<>>
    /\ last_found = FALSE

IdleDedup ==
    /\ papers = <<>>
    /\ paper_ix = 0
    /\ unique_papers = <<>>
    /\ processed_titles = {}

IdleRun ==
    /\ pc = "idle"
    /\ command = "none"
    /\ file_data = <<>>
    /\ author_ix = 0
    /\ offset = 0
    /\ author_papers = <<>>
    /\ all_papers = <<>>
    /\ requests = <<>>
    /\ saves = <<>>
    /\ new_count = -1
    /\ found = FALSE
    /\ exit_status = -1

Init == InitLib /\ IdleDedup /\ IdleRun

Next ==
    \/ \E new_papers \in Batches, maps \in Mappings : Merge(new_papers, maps)
    \/ \E title \in HideTitles, first_author \in HideAuthors : Hide(title, first_author)
    \/ \E list \in Batches, maps \in Mappings : FormatPapers(list, maps)
    \/ MergeAgain

Spec == Init /\ [][Next]_vars

-----------------------------------------------------------------------------
(* remove_duplicates, one turn of its loop at a time *)

InitDedup ==
    /\ IdleLib /\ IdleRun
    /\ papers \in DedupLists
    /\ paper_ix = 0
    /\ unique_papers = <<>>
    /\ processed_titles = {}

RemoveDuplicatesTurn ==
    /\ paper_ix < Len(papers)
    /\ LET t == DedupTurn(papers, paper_ix + 1, unique_papers, processed_titles)
       IN  /\ unique_papers' = t.unique
           /\ processed_titles' = t.processed
    /\ paper_ix' = paper_ix + 1
    /\ UNCHANGED <<papers, libVars, runVars>>

\* lines 328-330 of get_papers.py: main formats the papers remove_duplicates
\* returned
FormatUnique(maps) ==
    /\ paper_ix = Len(papers)
    /\ last_op = "none"
    /\ papers_data' = format_papers_for_yaml(unique_papers, maps)
    /\ last_op' = "format"
    /\ last_new' = unique_papers
    /\ last_maps' = maps
    /\ UNCHANGED <<prev_data, last_count, last_title, last_author, last_found>>
    /\ UNCHANGED <<dedupVars, runVars>>

NextDedup ==
    \/ RemoveDuplicatesTurn
    \/ \E maps \in Mappings : FormatUnique(maps)

SpecDedup == InitDedup /\ [][NextDedup]_vars

-----------------------------------------------------------------------------
(* Runs of the two commands, a page request at a time *)

InitRun ==
    /\ IdleLib /\ IdleDedup
    /\ pc = "start"
    /\ command = "none"
    /\ file_data \in RunFiles
    /\ author_ix = 0
    /\ offset = 0
    /\ author_papers = <<>>
    /\ all_papers = <<>>
    /\ requests = <<>>
    /\ saves = <<>>
    /\ new_count = -1
    /\ found = FALSE
    /\ exit_status = -1

\* the process ends with the outcome r of main
EndHide(r) ==
    /\ found' = r.found
    /\ saves' = r.saves
    /\ file_data' = r.file
    /\ exit_status' = r.exit_status

EndFetched(r) ==
    /\ new_count' = r.new_count
    /\ saves' = r.saves
    /\ file_data' = r.file
    /\ exit_status' = r.exit_status

\* get_papers_merge.py --hide-paper title [--author first_author]
RunHide(title, first_author, outcome) ==
    /\ pc = "start"
    /\ EndHide(MainHide(file_data, title, first_author, outcome))
    /\ command' = "hide"
    /\ pc' = "done"
    /\ UNCHANGED <<author_ix, offset, author_papers, all_papers, requests, new_count>>
    /\ UNCHANGED <<libVars, dedupVars>>

\* either command up to its first page request
BeginFetch(cmd) ==
    /\ pc = "start"
    /\ command' = cmd
    /\ pc' = "fetch"
    /\ author_ix' = 1
    /\ offset' = 0
    /\ UNCHANGED <<file_data, author_papers, all_papers, requests, saves, new_count,
                   found, exit_status, libVars, dedupVars>>

\* one request of get_author_papers and the handling of its answer; when the
\* loop is left, get_all_author_papers extends its list and takes the next
\* identifier
FetchPage(response) ==
    /\ pc = "fetch"
    /\ Len(response.data) = Limit => offset < MaxPages * Limit
    /\ LET t == AfterResponse(response, offset, author_papers)
       IN  IF t.finished
           THEN /\ all_papers' = all_papers \o t.author_papers
                /\ author_papers' = <<>>
                /\ offset' = 0
                /\ author_ix' = author_ix + 1
                /\ pc' = IF author_ix = Len(AuthorIds) THEN "fetched" ELSE "fetch"
           ELSE /\ author_papers' = t.author_papers
                /\ offset' = t.offset
                /\ UNCHANGED <<all_papers, author_ix, pc>>
    /\ requests' = Append(requests, [author |-> AuthorIds[author_ix], offset |-> offset,
                                     response |-> response])
    /\ UNCHANGED <<command, file_data, saves, new_count, found, exit_status>>
    /\ UNCHANGED <<libVars, dedupVars>>

\* the rest of main once get_all_author_papers has returned
Finish(maps, outcome) ==
    /\ pc = "fetched"
    /\ EndFetched(IF command = "merge"
                  THEN MainMerge(file_data, all_papers, maps, outcome)
                  ELSE MainRefresh(file_data, all_papers, maps, outcome))
    /\ pc' = "done"
    /\ UNCHANGED <<command, author_ix, offset, author_papers, all_papers, requests, found>>
    /\ UNCHANGED <<libVars, dedupVars>>

NextRun ==
    \/ \E title \in HideTitles, first_author \in HideAuthors, outcome \in SaveOutcomes :
          RunHide(title, first_author, outcome)
    \/ \E cmd \in {"merge", "refresh"} : BeginFetch(cmd)
    \/ \E response \in Responses : FetchPage(response)
    \/ \E maps \in LoadedMappings, outcome \in SaveOutcomes : Finish(maps, outcome)

SpecRun == InitRun /\ [][NextRun]_vars

-----------------------------------------------------------------------------
(* Properties of the library calls *)

StrictlyDescending(data) ==
    \A i \in 1..(Len(data) - 1) : data[i].year > data[i + 1].year

TotalPapers(data) == Len(AllEntries(data))

\* the number of papers of the dataset that have signature sig
SignatureCount(data, sig) ==
    LET es == AllEntries(data)
    IN  Cardinality({k \in 1..Len(es) : create_paper_signature(es[k].paper) = sig})

RECURSIVE IsSubsequence(_, _)
\* a occurs in b in the same relative order
IsSubsequence(a, b) ==
    IF a = <<>> THEN TRUE
    ELSE IF b = <<>> THEN FALSE
    ELSE IF a[1] = b[1] THEN IsSubsequence(Tail(a), Tail(b))
    ELSE IsSubsequence(a, Tail(b))

HiddenEntries(data) ==
    LET es == AllEntries(data)
    IN  {es[k] : k \in {j \in 1..Len(es) : es[j].paper.show = "false"}}

\* C1: a stored paper with show=false stays in the dataset, hidden, under its
\* year through every merge and hide call, and a merge adds no paper of its
\* signature even when the batch holds one.
C1_HiddenNeverReintroduced ==
    last_op \in {"merge", "hide"} =>
        \A h \in HiddenEntries(prev_data) :
            /\ h \in HiddenEntries(papers_data)
            /\ last_op = "merge" =>
                  SignatureCount(papers_data, create_paper_signature(h.paper))
                      <= SignatureCount(prev_data, create_paper_signature(h.paper))

\* C2 as stated: merge_new_papers(existing, []) returns existing itself and a
\* count of 0, for every dataset the loader can return.
C2_EmptyMergeReturnsExisting ==
    (last_op = "merge" /\ last_new = <<>>) =>
        (papers_data = prev_data /\ last_count = 0)

\* C2 amended: merge_new_papers(existing, []) returns a count of 0 and year
\* groups of existing, one for every year key of existing, by descending year;
\* the result is existing itself exactly when the year keys of existing are
\* strictly descending.
C2_EmptyMergeReturnsSortedExisting ==
    (last_op = "merge" /\ last_new = <<>>) =>
        /\ last_count = 0
        /\ \A j \in DOMAIN papers_data : \E i \in DOMAIN prev_data : papers_data[j] = prev_data[i]
        /\ \A i \in DOMAIN prev_data : \E j \in DOMAIN papers_data :
              papers_data[j].year = prev_data[i].year
        /\ StrictlyDescending(papers_data)
        /\ (papers_data = prev_data) <=> StrictlyDescending(prev_data)

C2_Witness ==
    /\ last_op = "merge" /\ last_new = <<>>
    /\ Len(prev_data) >= 2 /\ StrictlyDescending(prev_data)
    /\ TotalPapers(prev_data) >= 3
    /\ papers_data = prev_data

\* C3: merge_new_papers keeps every stored paper: the papers of each year
\* group of existing occur, unchanged and in their order, in the output's
\* group of that year, and the output holds as many papers as existing plus
\* the returned count.
C3_MergeKeepsExistingEntries ==
    last_op = "merge" =>
        /\ \A i \in DOMAIN prev_data :
              \E j \in DOMAIN papers_data :
                  /\ papers_data[j].year = prev_data[i].year
                  /\ IsSubsequence(prev_data[i].papers, papers_data[j].papers)
        /\ TotalPapers(papers_data) = TotalPapers(prev_data) + last_count

\* C5: the dataset returned by format_papers_for_yaml or merge_new_papers has
\* strictly descending year keys (so no year twice).
C5_YearsStrictlyDescending ==
    last_op \in {"merge", "format"} => StrictlyDescending(papers_data)

C5_Witness ==
    /\ last_op = "merge"
    /\ ~StrictlyDescending(prev_data)
    /\ Len(papers_data) >= 3

\* C6: mark_paper_as_hidden returns true and sets show=false on one paper of
\* the target signature, changing nothing else, when such a paper is stored;
\* otherwise it returns false and leaves the dataset as it was.
C6_HideSetsOnlyShowFlag ==
    last_op = "hide" =>
        LET target == create_paper_signature([title |-> last_title, authors |-> last_author])
            before == AllEntries(prev_data)
            after == AllEntries(papers_data)
            hits == {k \in 1..Len(before) : create_paper_signature(before[k].paper) = target}
        IN  IF hits = {}
            THEN last_found = FALSE /\ papers_data = prev_data
            ELSE /\ last_found = TRUE
                 /\ Len(papers_data) = Len(prev_data)
                 /\ \A g \in DOMAIN prev_data :
                       /\ papers_data[g].year = prev_data[g].year
                       /\ Len(papers_data[g].papers) = Len(prev_data[g].papers)
                 /\ \E k \in hits :
                       /\ after[k] = [before[k] EXCEPT !.paper.show = "false"]
                       /\ \A j \in (1..Len(before)) \ {k} : after[j] = before[j]

C6_Witness ==
    /\ last_op = "hide" /\ last_found = TRUE
    /\ papers_data # prev_data
    /\ SignatureCount(prev_data,
          create_paper_signature([title |-> last_title, authors |-> last_author])) >= 2

\* C7: mark_paper_as_hidden called with a title and no author, on a dataset
\* holding a paper of that title with a non-empty authors field, returns true
\* and leaves such a paper with show=false.
C7_HideByTitleAlone ==
    (/\ last_op = "hide" /\ last_author = <<>>
     /\ \E h \in {AllEntries(prev_data)[k] : k \in 1..TotalPapers(prev_data)} :
            h.paper.title = last_title /\ h.paper.authors # <<>>)
    => /\ last_found = TRUE
       /\ \E h \in HiddenEntries(papers_data) : h.paper.title = last_title

\* the formatted new paper number i of the last merge (NoPaper without a year)
NewFormatted(i) == format_paper_for_yaml(last_new[i], last_maps.venue, last_maps.author)

\* the new papers that are to be added: with a year, a signature no stored
\* paper has, and first of that signature in the batch
ToAdd ==
    {i \in DOMAIN last_new :
        /\ NewFormatted(i) # NoPaper
        /\ create_paper_signature(NewFormatted(i).paper)
              \notin get_existing_paper_signatures(prev_data)
        /\ \A j \in 1..(i - 1) :
              \/ NewFormatted(j) = NoPaper
              \/ create_paper_signature(NewFormatted(j).paper)
                    # create_paper_signature(NewFormatted(i).paper)}

RECURSIVE ToAddOfYear(_, _)
\* the formatted papers to add to year y, from batch index i on, in batch order
ToAddOfYear(y, i) ==
    IF i > Len(last_new) THEN <<>>
    ELSE (IF i \in ToAdd /\ NewFormatted(i).year = y THEN <<NewFormatted(i).paper>> ELSE <<>>)
            \o ToAddOfYear(y, i + 1)

HasStoredSignature(paper) ==
    create_paper_signature(paper) \in get_existing_paper_signatures(prev_data)

HasNewSignature(paper) == ~HasStoredSignature(paper)

\* C8: every new paper with a year and a signature not yet seen is appended,
\* with show=true, at the end of the group of its year (created if absent), in
\* batch order; the added papers have pairwise distinct signatures, none of
\* them a stored paper's signature, and the count is their number.
C8_NewPapersAppendedOnce ==
    last_op = "merge" =>
        LET added == SelectSeq(AllEntries(papers_data), LAMBDA e : HasNewSignature(e.paper))
        IN  /\ \A i \in ToAdd : \E g \in DOMAIN papers_data :
                                    papers_data[g].year = NewFormatted(i).year
            /\ \A g \in DOMAIN papers_data :
                  papers_data[g].papers =
                      SelectSeq(papers_data[g].papers, HasStoredSignature)
                          \o ToAddOfYear(papers_data[g].year, 1)
            /\ \A k \in DOMAIN added : added[k].paper.show = "true"
            /\ \A k, m \in DOMAIN added :
                  k # m => create_paper_signature(added[k].paper)
                              # create_paper_signature(added[m].paper)
            /\ \A sig \in get_existing_paper_signatures(prev_data) :
                  SignatureCount(papers_data, sig) <= SignatureCount(prev_data, sig)
            /\ last_count = Len(added)
            /\ last_count = Cardinality(ToAdd)

C8_Witness ==
    /\ last_op = "merge"
    /\ Len(last_new) >= 2
    /\ last_count = 1
    /\ \E i \in DOMAIN last_new, j \in DOMAIN last_new :
          /\ i < j /\ i \in ToAdd
          /\ NewFormatted(j) # NoPaper
          /\ create_paper_signature(NewFormatted(j).paper)
                = create_paper_signature(NewFormatted(i).paper)
    /\ \E g \in DOMAIN papers_data : papers_data[g].year \notin {prev_data[i].year : i \in DOMAIN prev_data}

\* C14: merge_new_papers called a second time, on the dataset the first call
\* returned and with the same batch and the same mappings, returns that
\* dataset and an addition count of 0.
C14_SecondMergeAddsNothing ==
    last_op = "merge_again" => (papers_data = prev_data /\ last_count = 0)

-----------------------------------------------------------------------------
(* Properties of remove_duplicates *)

\* the number of places of list that hold paper
Occurrences(list, paper) == Cardinality({k \in DOMAIN list : list[k] = paper})

\* C4: the list remove_duplicates returns holds no two entries that
\* is_duplicate judges duplicates of each other, and no paper more often than
\* the input list does.
C4_OneRepresentativePerGroup ==
    paper_ix = Len(papers) =>
        /\ \A a, b \in DOMAIN unique_papers :
              a # b => ~is_duplicate(unique_papers[a], unique_papers[b])
        /\ \A k \in DOMAIN unique_papers :
              Occurrences(unique_papers, unique_papers[k]) <= Occurrences(papers, unique_papers[k])

\* paper1 is titled "X: Y" and paper2 "X", and their first authors are the same
ColonTitlePair(paper1, paper2) ==
    LET n == Len(paper2.title)
    IN  /\ n > 0
        /\ ~Contains(<<":">>, paper2.title)
        /\ Len(paper1.title) > n + 1
        /\ SubSeq(paper1.title, 1, n) = paper2.title
        /\ paper1.title[n + 1] = ":"
        /\ paper1.authors # <<>> /\ paper2.authors # <<>>
        /\ paper1.authors[1] = paper2.authors[1]

\* C11 as stated: papers titled "X: Y" and "X" with the same first author are
\* duplicates, and it is rule 2 of is_duplicate that decides, in either order
\* of the two papers.
C11_ColonPairDecidedByRule2 ==
    \A i, j \in DOMAIN papers :
        ColonTitlePair(papers[i], papers[j]) =>
            /\ is_duplicate(papers[i], papers[j])
            /\ DecidingRule(papers[i], papers[j]) = 2
            /\ DecidingRule(papers[j], papers[i]) = 2

\* C11: papers titled "X: Y" and "X" with the same first author are
\* duplicates, in either order, and it is rule 1 that decides: normalize_title
\* has cut both titles at the first colon.  Rule 2 decides for no pair of
\* papers, and is_duplicate is true exactly when one of the rules decides.
C11_ColonPairDecidedByRule1 ==
    /\ \A i, j \in DOMAIN papers :
          ColonTitlePair(papers[i], papers[j]) =>
              /\ is_duplicate(papers[i], papers[j])
              /\ is_duplicate(papers[j], papers[i])
              /\ DecidingRule(papers[i], papers[j]) = 1
              /\ DecidingRule(papers[j], papers[i]) = 1
    /\ \A i, j \in DOMAIN papers :
          /\ DecidingRule(papers[i], papers[j]) # 2
          /\ is_duplicate(papers[i], papers[j]) <=> DecidingRule(papers[i], papers[j]) # 0

\* remove_duplicates has handled "E: z" with "E" by the same first author
\* after it, and made one group of the two
C11_Witness ==
    /\ paper_ix >= 1
    /\ Len(papers) >= 2
    /\ ColonTitlePair(papers[1], papers[2])
    /\ papers[2] \in {DuplicatesOf(papers, papers[1])[k] : k \in 2..Len(DuplicatesOf(papers, papers[1]))}

\* the venue text holds "arxiv" or "preprint", whatever the case of its letters
NamesPreprint(venue) ==
    \E w \in {<<"a", "r", "x", "i", "v">>, <<"p", "r", "e", "p", "r", "i", "n", "t">>} :
        \E i \in 0..(Len(venue) - Len(w)) : Lower(SubSeq(venue, i + 1, i + Len(w))) = w

\* paper is the one the candidate list d should be represented by: the first
\* candidate whose venue does not name a preprint, the first candidate if all do
IsFirstChoice(d, paper) ==
    \E i \in DOMAIN d :
        /\ d[i] = paper
        /\ IF \E j \in DOMAIN d : ~NamesPreprint(d[j].venue)
           THEN ~NamesPreprint(d[i].venue) /\ \A j \in 1..(i - 1) : NamesPreprint(d[j].venue)
           ELSE i = 1

\* the candidate lists remove_duplicates builds from list: each paper followed
\* by its later duplicates
CandidateLists(list) == {DuplicatesOf(list, list[k]) : k \in DOMAIN list}

\* C12: for every non-empty candidate list (each list remove_duplicates builds,
\* and the input list itself), select_best_paper returns one of the
\* candidates: the first whose venue holds neither "arxiv" nor "preprint" in
\* any case, an absent venue holding neither, and the first candidate when
\* every venue holds one of them.  The representative remove_duplicates
\* appended in its first turn is that paper.
C12_FirstNonPreprintSelected ==
    /\ \A d \in CandidateLists(papers) \cup ({papers} \ {<<>>}) :
          IsFirstChoice(d, select_best_paper(d))
    /\ paper_ix >= 1 =>
          /\ unique_papers # <<>>
          /\ IsFirstChoice(DuplicatesOf(papers, papers[1]), unique_papers[1])

\* the first turn of remove_duplicates met an arXiv paper, then a "Preprint"
\* duplicate, then a conference duplicate, and kept the third
C12_Witness ==
    /\ paper_ix >= 1
    /\ papers = <<rA, rAs, rAx>>
    /\ DuplicatesOf(papers, papers[1]) = papers
    /\ unique_papers[1] = rAx

\* the refreshed dataset holds the raw paper q, formatted, under its year
InRefreshedDataset(q) ==
    \E g \in DOMAIN papers_data :
        /\ papers_data[g].year = ResolveYear(q)
        /\ \E e \in DOMAIN papers_data[g].papers :
              papers_data[g].papers[e]
                  = FormattedPaper(q, last_maps.venue, last_maps.author) @@ [show |-> "absent"]

\* C13: after remove_duplicates and format_papers_for_yaml, every input paper
\* with a determinable year is in the dataset, or a paper that is_duplicate
\* judges its duplicate is.
C13_NoPublicationLost ==
    (last_op = "format" /\ paper_ix = Len(papers)) =>
        \A i \in DOMAIN papers :
            ResolveYear(papers[i]) # 0 =>
                \E j \in DOMAIN papers :
                    /\ j = i \/ is_duplicate(papers[i], papers[j])
                    /\ ResolveYear(papers[j]) # 0
                    /\ InRefreshedDataset(papers[j])

\* C15: is_duplicate gives the same answer for a pair of papers in either
\* order, and is true of a paper and itself.
C15_DuplicateSymmetricReflexive ==
    \A i, j \in DOMAIN papers :
        /\ is_duplicate(papers[i], papers[j]) <=> is_duplicate(papers[j], papers[i])
        /\ is_duplicate(papers[i], papers[i])

\* remove_duplicates has compared "Ex" with a later "E" by the same first
\* author: only the title of the second is within the title of the first, and
\* the two are duplicates in both orders
C15_Witness ==
    /\ paper_ix >= 1
    /\ Len(papers) >= 2
    /\ papers[1] = rAx /\ papers[2] = rA
    /\ DecidingRule(papers[1], papers[2]) = 3
    /\ ~Contains(Lower(papers[1].title), Lower(papers[2].title))
    /\ DuplicatesOf(papers, papers[1])[2] = rA

-----------------------------------------------------------------------------
(* Properties of the runs *)

\* C9: a run ends with a non-zero exit status exactly when it fetched and the
\* fetch over all author identifiers yielded no papers after the 50-author
\* filter; every other run ends with status zero: the merge run that adds no
\* paper (which does not save the dataset), the hide run (which issues no
\* request and saves only when the paper was found) and a run whose save fails.
C9_RunOutcome ==
    pc = "done" =>
        /\ (exit_status # 0) <=> (command # "hide" /\ all_papers = <<>>)
        /\ (command = "merge" /\ new_count = 0) => saves = <<>>
        /\ command = "hide" => (requests = <<>> /\ (saves # <<>> => found))
        /\ (\E k \in DOMAIN saves : saves[k].outcome # "ok") => exit_status = 0

\* the requests made for one author identifier, in the order made
RequestsOf(author_id) == SelectSeq(requests, LAMBDA r : r.author = author_id)

\* a page on which get_author_papers goes on: Limit records
IsFullPage(response) == response.kind = "ok" /\ Len(response.data) = Limit

\* the papers a request contributes: those of its page with fewer than 50 authors
KeptOf(response) ==
    IF response.kind = "ok"
    THEN SelectSeq(response.data, LAMBDA paper : Len(paper.authors) < ManyAuthors)
    ELSE <<>>

RECURSIVE KeptOfAll(_)
KeptOfAll(log) ==
    IF log = <<>> THEN <<>> ELSE KeptOf(log[1].response) \o KeptOfAll(Tail(log))

PositionOf(author_id) == CHOOSE i \in DOMAIN AuthorIds : AuthorIds[i] = author_id

\* get_author_papers has returned for the i-th author identifier
Returned(i) == pc \in {"fetched", "done"} \/ author_ix > i

\* C10: for every author identifier the requests are made at offsets 0, 100,
\* 200, ... in that order, each one after a full page only, and once
\* get_author_papers has returned the last page requested is a stopping page
\* (empty, fewer than 100 records, or a request error): no request follows it
\* and no offset is asked twice.  The papers collected are those with fewer
\* than 50 authors of every page received, a final short page included, in the
\* order of the requests; the requests go by author identifier in the order of
\* the identifiers, and every identifier is requested whatever happened to the
\* ones before it.
C10_Pagination ==
    pc \in {"fetch", "fetched", "done"} /\ command # "hide" =>
        /\ \A i \in DOMAIN AuthorIds :
              LET rs == RequestsOf(AuthorIds[i])
              IN  /\ \A k \in DOMAIN rs : rs[k].offset = (k - 1) * Limit
                  /\ \A k \in 1..(Len(rs) - 1) : IsFullPage(rs[k].response)
                  /\ Returned(i) => (rs # <<>> /\ ~IsFullPage(rs[Len(rs)].response))
                  /\ ~Returned(i) /\ rs # <<>> => IsFullPage(rs[Len(rs)].response)
        /\ \A j, k \in DOMAIN requests :
              j < k => PositionOf(requests[j].author) <= PositionOf(requests[k].author)
        /\ all_papers \o author_papers = KeptOfAll(requests)
        /\ pc # "fetch" => author_papers = <<>>

\* the fetch is over: the first identifier got a full page and then a request
\* error at offset 100, the second two full pages and a short page at offset
\* 200, and the papers of all four pages have been collected
C10_Witness ==
    /\ pc = "fetched"
    /\ \E k \in DOMAIN requests :
          /\ requests[k].author = AuthorIds[1]
          /\ requests[k].offset = Limit
          /\ requests[k].response = ErrorResponse
    /\ \E k \in DOMAIN requests :
          /\ requests[k].author = AuthorIds[2]
          /\ requests[k].offset = 2 * Limit
          /\ requests[k].response = PageResponse(<<rE>>)
    /\ all_papers = <<rB, rB, rB, rE>>

====
